---- MODULE Spec2Model ----
(***************************************************************************)
(* Signal / power propagation of the puzzle devices: pressure plates,      *)
(* charge pads, door poles, weighted cubes, power buttons, the player's    *)
(* right hand and the discharge / dissolve gates.                          *)
(*                                                                         *)
(* Conventions of the host engine that the model follows:                  *)
(*  - a system's Commands are queued while the system runs and applied in  *)
(*    order afterwards; each applied command runs the observers it         *)
(*    triggers, and the commands those observers queue are applied before  *)
(*    the next command of the queue;                                       *)
(*  - an OnAdd observer runs only when the component was absent, an        *)
(*    OnRemove observer only when it was present;                          *)
(*  - a Timer in mode Once accumulates the ticked delta up to its duration *)
(*    and is finished when elapsed >= duration;                            *)
(*  - a HashSet is iterated in an arbitrary order.                         *)
(***************************************************************************)
EXTENDS Integers, Sequences, FiniteSets, TLC

\* the absent value of an Option<Entity>
None == <<"none", 0>>
\* no event triggered yet
NoEvent == "NoEvent"
\* the absent value of a timer component
NoTimer == -1

(***************************************************************************)
(* Bounds of the model.                                                    *)
(***************************************************************************)
\* number of weighted cubes in the scene
NumCubes == 1
\* length of one FixedUpdate step, in milliseconds
FixedDeltaMs == 500

(***************************************************************************)
(* Constants of the program.                                               *)
(***************************************************************************)
DOOR_POLE_POWER_DURATION_SEC == 2
POWER_ANIMATION_DURATION_SEC == 1
PoleDurationMs == DOOR_POLE_POWER_DURATION_SEC * 1000
CubeDurationMs == POWER_ANIMATION_DURATION_SEC * 1000

(***************************************************************************)
(* The scene.                                                              *)
(***************************************************************************)
Cubes == {<<"cube", i>> : i \in 1..NumCubes}
\* door poles: static bodies
Poles == {<<"pole", 1>>}
\* signal spitters, which the player can carry like the cubes
Spitters == {<<"spitter", 1>>}
\* the bodies that move through the level
Movables == Cubes \cup Spitters
\* rigid bodies on the Device layer, which a charge pad or a cube detects
Bodies == Movables \cup Poles
Plates == {<<"plate", 1>>}
Pads == {<<"pad", 1>>, <<"pad", 2>>}
Pickables == Cubes \cup Spitters
PlayerEntity == <<"player", 0>>
\* a device tagged Inert: a static body on the Device layer
InertDevices == {<<"inert", 1>>}
\* a collider that belongs to no rigid body
LooseCollider == <<"loose_collider", 1>>
\* the mesh of a BigRedButton: Interactable, primary action Press
BigRedButtonMesh == <<"big_red_button_mesh", 1>>
\* the sensor meshes of the gates, children of the gate entities
DischargeGateMesh == <<"discharge_gate_mesh", 1>>
DissolveGateMesh == <<"dissolve_gate_mesh", 1>>
DischargeGates == {<<"discharge_gate", 1>>}
DissolveGates == {<<"dissolve_gate", 1>>}
\* the power button, its collider, and the entities that may share its room
ButtonEntity == <<"power_button", 1>>
ButtonCollider == <<"power_button_collider", 1>>
Doors == {<<"door", 1>>}
SiblingCandidates == Poles \cup Doors \cup {<<"cube", 1>>}

\* the collider entity of a body (the player's collider sits on the player)
Collider(body) ==
  CASE body[1] = "cube" -> <<"cube_collider", body[2]>>
    [] body[1] = "spitter" -> <<"spitter_collider", body[2]>>
    [] body[1] = "pole" -> <<"pole_collider", body[2]>>
    [] body[1] = "power_button" -> <<"power_button_collider", body[2]>>
    [] OTHER -> body

\* ColliderOf.body of a collider, None for a collider without ColliderOf
ColliderOf(collider) ==
  CASE collider[1] = "cube_collider" -> <<"cube", collider[2]>>
    [] collider[1] = "spitter_collider" -> <<"spitter", collider[2]>>
    [] collider[1] = "pole_collider" -> <<"pole", collider[2]>>
    [] collider[1] = "power_button_collider" -> <<"power_button", collider[2]>>
    [] collider[1] = "player" -> collider
    [] OTHER -> None

\* colliders (player or device) that can stand in a plate's detection box
PlateColliders == {PlayerEntity, <<"cube_collider", 1>>}

\* all the orders in which a set can be iterated
Orders(S) ==
  {s \in [1..Cardinality(S) -> S] : \A i, j \in 1..Cardinality(S) : s[i] = s[j] => i = j}

\* the elements of S in the order ord lists them
InOrder(S, ord) == SelectSeq(ord, LAMBDA x : x \in S)

VARIABLES
  powered,               \* the entities that carry Powered
  powered_by,            \* PoweredBy of each entity (None: no such component)
  plate_detector,        \* PressurePlateDetector of each plate
  plate_events,          \* events triggered by the last run of update_pressure_plate_overlaps
  last_plate_event,      \* the last event ever triggered for each plate
  pad_detector,          \* ChargePadDetector of each charge pad
  powered_timer,         \* elapsed ms of each pole's PoweredTimer, or NoTimer
  since_signal,          \* ms ticked since the pole's last DirectSignal, or NoTimer
  cube_discharge,        \* elapsed ms of each cube's CubeDischarge, or NoTimer
  powering_up,           \* elapsed ms of each cube's PoweringUp, or NoTimer
  added_powered,         \* cubes whose Powered was added since cube_receive_power last ran
  warmed_up,             \* cubes whose PoweringUp has expired since they last became Powered
  near,                  \* the bodies that stand within CUBE_DISCHARGE_RADIUS of each other
  held,                  \* Held of each body: "none", "held" (can_release false) or "releasable"
  held_object,           \* RightHand.held_object
  added_held,            \* bodies whose Held was added since picked_up_item last ran
  interactions_disabled, \* colliders that carry InteractionsDisabled (and the Ignore layer)
  shape_caster,          \* whether the player carries the ShapeCaster of a held body
  despawned,             \* bodies that have been despawned
  transform,             \* where each body is: "spawn", "moved" or "carried"
  room_children,         \* Children of the room the power button stands in
  button_targets,        \* ButtonTargets of the power button (NoTargets: no such component)
  delayed_signals,       \* the DelayedSignalTimer entities
  delivered,             \* DirectSignals triggered so far, per press and target
  since_press,           \* ms ticked by update_delayed_signals since each press
  rigid_body_disabled,   \* the rigid bodies that carry RigidBodyDisabled
  distance,              \* distance of each rigid body to the player
  players,               \* number of entities that carry Player
  ran,                   \* the cube systems that have run in the current FixedUpdate
  signal_entities,       \* the Signal entities in flight
  powers_door,           \* PowersDoor of each door pole (None: no such component)
  extra_door_power_required, \* ExtraDoorPowerRequired.amount of each door, or NoExtra
  door_y,                \* height of each door above its DoorOriginalPosition
  door_tween,            \* the running animation of each door: "none", "open" or "close"
  waiting,               \* the SignalAfterDelay children of the signal spitter
  material_colliders,    \* how many colliders of the spitter carry an UnlitMaterial
  step,                  \* the operation that produced the current state
  call                   \* the inputs of that operation

plateVars == <<plate_detector, plate_events, last_plate_event>>
\* the components the observers of the power network read and write
worldVars == <<powered, powered_by, pad_detector, powered_timer, since_signal,
               cube_discharge, powering_up, added_powered, warmed_up>>
handVars == <<held, held_object, added_held, interactions_disabled, shape_caster,
              despawned, transform>>
buttonVars == <<room_children, button_targets, delayed_signals, delivered, since_press>>
distanceVars == <<rigid_body_disabled, distance, players>>
\* what the device handlers of the power network, the hand and the button leave alone
\* what the cube systems leave alone as well
doorVars == <<powers_door, extra_door_power_required, door_y, door_tween>>
spitterVars == <<waiting, material_colliders>>
restVars == <<distanceVars, signal_entities, doorVars, spitterVars>>
extVars == <<restVars, ran>>

(***************************************************************************)
(* Scene graph and registration (FixedPreUpdate, on Added<..>).            *)
(***************************************************************************)
\* ChildOf: the parent of each plate and pad in the scene
ParentOf(e) ==
  CASE e = <<"plate", 1>> -> <<"room", 1>>
    [] e = <<"pad", 1>> -> <<"room", 1>>
    [] e = <<"pad", 2>> -> <<"room", 2>>
    [] e = DischargeGateMesh -> <<"discharge_gate", 1>>
    [] e = DissolveGateMesh -> <<"dissolve_gate", 1>>
    [] OTHER -> None

\* the first ChargePad sibling of a plate, or None
PadOfPlate(plate) ==
  LET sib == {p \in Pads : ParentOf(p) = ParentOf(plate)}
  IN IF sib = {} THEN None ELSE CHOOSE p \in sib : TRUE

\* register_pressure_plates: the sibling pad gets PoweredBy(plate) and the
\* observers charge_pad_receive_power / charge_pad_lose_power
register_pressure_plates(pb) ==
  [e \in DOMAIN pb |->
     IF \E pl \in Plates : PadOfPlate(pl) = e
     THEN CHOOSE pl \in Plates : PadOfPlate(pl) = e
     ELSE pb[e]]

\* the pads that observe OnAdd / OnRemove of their own Powered
ObservedPads == {PadOfPlate(pl) : pl \in Plates} \ {None}

\* Powers: the relationship target of PoweredBy
Powers(pb, target) == {e \in DOMAIN pb : pb[e] = target}

(***************************************************************************)
(* update_pressure_plate_overlaps, for one plate.                          *)
(***************************************************************************)
\* a plausible slip: Pressed triggered for every entering entity
RECURSIVE PlateEnterLoopNoGuard(_, _, _)
PlateEnterLoopNoGuard(acc, plate, entering) ==
  IF entering = <<>> THEN acc
  ELSE LET e == Head(entering)
           next == [det |-> [acc.det EXCEPT !.is_pressed = TRUE],
                    events |-> Append(acc.events,
                                 [type |-> "Pressed", plate |-> plate, entity |-> e])]
       IN PlateEnterLoopNoGuard(next, plate, Tail(entering))

\* the loop over the entities that just entered: Pressed is triggered for
\* the first of them only, guarded by is_pressed
RECURSIVE PlateEnterLoop(_, _, _)
PlateEnterLoop(acc, plate, entering) ==
  IF entering = <<>> THEN acc
  ELSE LET e == Head(entering)
           next == IF ~acc.det.is_pressed
                   THEN [det |-> [acc.det EXCEPT !.is_pressed = TRUE],
                         events |-> Append(acc.events,
                                      [type |-> "Pressed", plate |-> plate, entity |-> e])]
                   ELSE acc
       IN PlateEnterLoop(next, plate, Tail(entering))

\* a plausible slip: the plate is never released
PlateReleaseCheckNever(acc, plate, left) == acc

\* the release check after overlapping_entities has been replaced
PlateReleaseCheck(acc, plate, left) ==
  IF acc.det.is_pressed /\ acc.det.overlapping_entities = {}
  THEN [det |-> [acc.det EXCEPT !.is_pressed = FALSE],
        events |-> Append(acc.events,
                     [type |-> "Released", plate |-> plate,
                      entity |-> IF left = <<>> THEN None ELSE Head(left)])]
  ELSE acc

update_plate(det, plate, cur, ord) ==
  LET entering == InOrder(cur \ det.overlapping_entities, ord)
      left == InOrder(det.overlapping_entities \ cur, ord)
      a1 == PlateEnterLoop([det |-> det, events |-> <<>>], plate, entering)
      a2 == [a1 EXCEPT !.det.overlapping_entities = cur]
  IN PlateReleaseCheck(a2, plate, left)

(***************************************************************************)
(* Observers of the charge pads.  A world w is the record                  *)
(* of the components named by worldVars, on which the observers act.       *)
(***************************************************************************)
\* Powered is added to an entity that did not carry it: a cube is then
\* matched by Added<Powered>.  A cube that carries PoweredBy counts as
\* warmed up, since PoweringUp is meant only for a cube without it.
AddPowered(w, e, has_powered_by) ==
  IF e \in w.powered THEN w
  ELSE IF e \in Cubes
       THEN [w EXCEPT !.powered = @ \cup {e},
                      !.added_powered = @ \cup {e},
                      !.warmed_up = IF has_powered_by THEN @ \cup {e} ELSE @ \ {e}]
       ELSE [w EXCEPT !.powered = @ \cup {e}]

\* commands.entity(e).insert(Powered).insert(PoweredBy(pad)) on a body
InsertPoweredAndPoweredBy(w, e, pad) ==
  [AddPowered(w, e, TRUE) EXCEPT !.powered_by[e] = pad,
                                 !.warmed_up = IF e \in Cubes THEN @ \cup {e} ELSE @]

\* a plausible slip: the relationship is left behind on the entity
StopChargingKeepPoweredBy(w, e, pad) ==
  IF w.powered_by[e] = pad /\ e \notin Cubes
  THEN [w EXCEPT !.powered = @ \ {e}]
  ELSE w

\* a plausible slip: cubes are treated like every other entity
StopChargingCubesToo(w, e, pad) ==
  IF w.powered_by[e] = pad
  THEN [w EXCEPT !.powered = @ \ {e}, !.powered_by[e] = None]
  ELSE w

\* the removal both pad handlers apply to the entity they stop charging:
\* cubes retain Powered and lose only PoweredBy
StopCharging(w, e, pad) ==
  IF w.powered_by[e] = pad
  THEN IF e \notin Cubes
       THEN [w EXCEPT !.powered = @ \ {e}, !.powered_by[e] = None]
       ELSE [w EXCEPT !.powered_by[e] = None]
  ELSE w

on_charge_pad_entity_entered(w, pad, entering) ==
  IF w.pad[pad].charged_entity = None
  THEN LET w1 == [w EXCEPT !.pad[pad].charged_entity = entering]
       IN IF pad \in w.powered
          THEN InsertPoweredAndPoweredBy(w1, entering, pad)
          ELSE w1
  ELSE w

\* a plausible slip: no other entity is promoted when the charged one leaves
on_charge_pad_entity_left_no_promotion(w, pad, leaving, ord) ==
  IF w.pad[pad].charged_entity = leaving
  THEN StopCharging([w EXCEPT !.pad[pad].charged_entity = None], leaving, pad)
  ELSE w

\* ord: the iteration order of overlapping_entities (its first element is
\* what iter().next() yields)
on_charge_pad_entity_left(w, pad, leaving, ord) ==
  IF w.pad[pad].charged_entity = leaving
  THEN LET w1 == [w EXCEPT !.pad[pad].charged_entity = None]
           w2 == StopCharging(w1, leaving, pad)
           rest == InOrder(w.pad[pad].overlapping_entities, ord)
       IN IF rest # <<>> /\ Head(rest) # leaving
          THEN InsertPoweredAndPoweredBy(
                 [w2 EXCEPT !.pad[pad].charged_entity = Head(rest)], Head(rest), pad)
          ELSE w2
  ELSE w

\* OnAdd<Powered> on an observed pad
charge_pad_receive_power(w, pad) ==
  IF w.pad[pad].charged_entity # None
  THEN InsertPoweredAndPoweredBy(w, w.pad[pad].charged_entity, pad)
  ELSE w

\* OnRemove<Powered> on an observed pad
charge_pad_lose_power(w, pad) ==
  IF w.pad[pad].charged_entity # None
  THEN StopCharging(w, w.pad[pad].charged_entity, pad)
  ELSE w

\* commands.entity(target).insert(Powered) with its OnAdd observers
InsertPowered(w, target) ==
  IF target \in w.powered THEN w
  ELSE LET w1 == AddPowered(w, target, w.powered_by[target] # None)
       IN IF target \in ObservedPads THEN charge_pad_receive_power(w1, target) ELSE w1

\* commands.entity(target).remove::<Powered>() with its OnRemove observers
RemovePowered(w, target) ==
  IF target \notin w.powered THEN w
  ELSE LET w1 == [w EXCEPT !.powered = @ \ {target}, !.added_powered = @ \ {target}]
       IN IF target \in ObservedPads THEN charge_pad_lose_power(w1, target) ELSE w1

RECURSIVE InsertPoweredAll(_, _)
InsertPoweredAll(w, targets) ==
  IF targets = {} THEN w
  ELSE LET t == CHOOSE x \in targets : TRUE
       IN InsertPoweredAll(InsertPowered(w, t), targets \ {t})

RECURSIVE RemovePoweredAll(_, _)
RemovePoweredAll(w, targets) ==
  IF targets = {} THEN w
  ELSE LET t == CHOOSE x \in targets : TRUE
       IN RemovePoweredAll(RemovePowered(w, t), targets \ {t})

\* the plate's query needs its Powers component, which exists while some
\* entity is PoweredBy the plate
on_pressure_plate_pressed(w, plate) ==
  InsertPoweredAll(w, Powers(w.powered_by, plate))

\* a plausible slip: the release leaves the targets powered
on_pressure_plate_released_keeps_power(w, plate) == w

on_pressure_plate_released(w, plate) ==
  RemovePoweredAll(w, Powers(w.powered_by, plate))

\* the queued commands of a system, applied in order
RECURSIVE ApplyCommands(_, _, _)
ApplyCommands(w, cmds, ord) ==
  IF cmds = <<>> THEN w
  ELSE LET c == Head(cmds)
           w1 == CASE c.type = "Pressed" -> on_pressure_plate_pressed(w, c.plate)
                   [] c.type = "Released" -> on_pressure_plate_released(w, c.plate)
                   [] c.type = "Entered" -> on_charge_pad_entity_entered(w, c.pad, c.entity)
                   [] c.type = "Left" -> on_charge_pad_entity_left(w, c.pad, c.entity, ord)
       IN ApplyCommands(w1, Tail(cmds), ord)

(***************************************************************************)
(* update_charge_pad_overlaps: the events of one pad, entered before left. *)
(***************************************************************************)
PadEvents(det, pad, cur, ord) ==
  LET entering == InOrder(cur \ det.overlapping_entities, ord)
      left == InOrder(det.overlapping_entities \ cur, ord)
  IN [i \in 1..Len(entering) |-> [type |-> "Entered", pad |-> pad, entity |-> entering[i]]]
     \o [i \in 1..Len(left) |-> [type |-> "Left", pad |-> pad, entity |-> left[i]]]

RECURSIVE AllPadEvents(_, _, _, _)
AllPadEvents(dets, padOrd, cur, ord) ==
  IF padOrd = <<>> THEN <<>>
  ELSE PadEvents(dets[Head(padOrd)], Head(padOrd), cur[Head(padOrd)], ord)
       \o AllPadEvents(dets, Tail(padOrd), cur, ord)

World ==
  [powered |-> powered, powered_by |-> powered_by, pad |-> pad_detector,
   powered_timer |-> powered_timer, since_signal |-> since_signal,
   cube_discharge |-> cube_discharge, powering_up |-> powering_up,
   added_powered |-> added_powered, warmed_up |-> warmed_up]

\* the world w becomes the next state
Commit(w) ==
  /\ powered' = w.powered
  /\ powered_by' = w.powered_by
  /\ pad_detector' = w.pad
  /\ powered_timer' = w.powered_timer
  /\ since_signal' = w.since_signal
  /\ cube_discharge' = w.cube_discharge
  /\ powering_up' = w.powering_up
  /\ added_powered' = w.added_powered
  /\ warmed_up' = w.warmed_up

\* the inputs of an operation that has none
NoCall == [target |-> None, collider |-> None]

\* FixedUpdate: update_charge_pad_overlaps and the observers its events run.
\* The bodies among `movable` move so that the overlap of one pad among
\* `pads` changes in a tick (the events of different pads are applied one
\* pad after the other, and the observers of a pad read no other pad's
\* detector, so a tick that changes two pads ends where two ticks do); the
\* static bodies of `fixed` stand in the area of that pad.  ordCur is the
\* iteration order of current_overlaps, ordLeft that of the difference.
UpdateChargePadOverlaps(pads, movable, fixed) ==
  \E p \in pads, cur \in {m \cup fixed : m \in SUBSET movable} :
    \E ordCur \in Orders(cur),
       ordLeft \in Orders(pad_detector[p].overlapping_entities \ cur) :
      LET now == [q \in Pads |->
                    IF q = p THEN cur ELSE pad_detector[q].overlapping_entities]
          padOrd == CHOOSE s \in Orders(Pads) : TRUE
          cmds == AllPadEvents(pad_detector, padOrd, now, ordCur \o ordLeft)
          w0 == [World EXCEPT !.pad =
                   [q \in Pads |-> [pad_detector[q] EXCEPT !.overlapping_entities = now[q]]]]
          w == ApplyCommands(w0, cmds, ordCur)
      IN /\ Commit(w)
         /\ step' = "update_charge_pad_overlaps"
         /\ call' = NoCall
         /\ UNCHANGED <<extVars, plateVars, handVars, buttonVars, near>>

\* FixedUpdate: update_pressure_plate_overlaps and the observers its events run
UpdatePressurePlateOverlaps ==
  \E cur \in [Plates -> SUBSET PlateColliders], ord \in Orders(PlateColliders) :
    LET r == [pl \in Plates |-> update_plate(plate_detector[pl], pl, cur[pl], ord)]
        plateSeq == CHOOSE s \in Orders(Plates) : TRUE
        RECURSIVE Cmds(_)
        Cmds(ps) == IF ps = <<>> THEN <<>> ELSE r[Head(ps)].events \o Cmds(Tail(ps))
        w == ApplyCommands(World, Cmds(plateSeq), <<>>)
    IN /\ plate_detector' = [pl \in Plates |-> r[pl].det]
       /\ plate_events' = [pl \in Plates |-> r[pl].events]
       /\ last_plate_event' =
            [pl \in Plates |->
               IF r[pl].events = <<>> THEN last_plate_event[pl]
               ELSE r[pl].events[Len(r[pl].events)].type]
       /\ Commit(w)
       /\ step' = "update_pressure_plate_overlaps"
       /\ call' = NoCall
       /\ UNCHANGED <<extVars, handVars, buttonVars, near>>

(***************************************************************************)
(* Timers (TimerMode::Once).                                               *)
(***************************************************************************)
\* Timer::tick: the elapsed time after a tick of delta
Tick(elapsed, delta, duration) ==
  IF elapsed + delta >= duration THEN duration ELSE elapsed + delta

\* Timer::finished
Finished(elapsed, duration) == elapsed >= duration

(***************************************************************************)
(* Door poles.                                                             *)
(***************************************************************************)
\* insert((Powered, PoweredTimer(2 s))): an existing timer is replaced
door_pole_direct_signal(w, target) ==
  IF target \in Poles
  THEN [InsertPowered(w, target) EXCEPT !.powered_timer[target] = 0,
                                        !.since_signal[target] = 0]
  ELSE w

\* the ChargePad query of update_powered_timers: Powered, without PoweredTimer
\* (no pad ever carries a PoweredTimer)
should_stay_powered(w, entity) ==
  /\ w.powered_by[entity] \in Pads
  /\ w.powered_by[entity] \in w.powered

\* FixedUpdate: every PoweredTimer ticks; a finished one is removed, with
\* Powered unless the pole is still charged by a powered pad
update_powered_timers(w) ==
  LET ticked == [p \in Poles |->
                   IF w.powered_timer[p] = NoTimer THEN NoTimer
                   ELSE Tick(w.powered_timer[p], FixedDeltaMs, PoleDurationMs)]
      finished == {p \in Poles : ticked[p] # NoTimer /\ Finished(ticked[p], PoleDurationMs)}
      since == [p \in Poles |->
                  IF w.powered_timer[p] = NoTimer THEN w.since_signal[p]
                  ELSE Tick(w.since_signal[p], FixedDeltaMs, PoleDurationMs)]
      w1 == RemovePoweredAll(w, {p \in finished : ~should_stay_powered(w, p)})
  IN [w1 EXCEPT !.powered_timer = [p \in Poles |-> IF p \in finished THEN NoTimer ELSE ticked[p]],
                !.since_signal = since]

UpdatePoweredTimers ==
  /\ Commit(update_powered_timers(World))
  /\ step' = "update_powered_timers"
  /\ call' = NoCall
  /\ UNCHANGED <<extVars, plateVars, handVars, buttonVars, near>>

(***************************************************************************)
(* Weighted cubes.                                                         *)
(***************************************************************************)
\* a plausible slip: the discharge cooldown is not looked at
cube_direct_signal_no_cooldown(w, target) ==
  IF target \notin w.powered THEN InsertPowered(w, target) ELSE w

\* observer of DirectSignal on a cube
cube_direct_signal(w, target) ==
  IF target \notin w.powered /\ w.cube_discharge[target] = NoTimer
  THEN InsertPowered(w, target)
  ELSE w

\* the observers of DirectSignal, by the kind of the target
DirectSignal(w, target) ==
  CASE target \in Cubes -> cube_direct_signal(w, target)
    [] target \in Poles -> door_pole_direct_signal(w, target)
    [] OTHER -> w

\* a DirectSignal is triggered on one of `targets`
DeliverDirectSignal(targets) ==
  \E t \in targets :
    /\ t \notin despawned
    /\ Commit(DirectSignal(World, t))
    /\ step' = "direct_signal"
    /\ call' = [target |-> t, collider |-> None]
    /\ UNCHANGED <<extVars, plateVars, handVars, buttonVars, near>>

\* the four timer / power systems of cube_plugin, in the order of the tuple
CubeSystems ==
  {"cube_receive_power", "cube_discharge_detection",
   "update_cube_discharge_timers", "update_powering_up_timers"}

\* the order in which a query iterates the bodies
BodySeq == CHOOSE s \in Orders(Bodies) : TRUE

Cmd(type, target) == [type |-> type, target |-> target]

RECURSIVE Flatten(_)
Flatten(seqs) == IF seqs = <<>> THEN <<>> ELSE Head(seqs) \o Flatten(Tail(seqs))

\* the commands of a sequence of bodies, concatenated
ForEach(bodies, cmdsOf(_)) == Flatten([i \in 1..Len(bodies) |-> cmdsOf(bodies[i])])

\* Added<Powered> cubes without PoweredBy get a PoweringUp timer; the run
\* consumes the Added marks
cube_receive_power(w) ==
  LET matched(c) == c \in Cubes /\ c \in w.powered /\ c \in w.added_powered
                    /\ c \notin despawned
      cmdsOf(c) == IF matched(c) /\ w.powered_by[c] = None
                   THEN <<Cmd("InsertPoweringUp", c)>> ELSE <<>>
  IN [w |-> [w EXCEPT !.added_powered = {}], cmds |-> ForEach(BodySeq, cmdsOf)]

\* a plausible slip: an Inert device counts as a target
DischargeTargetsInertToo(w, cube) ==
  IF cube \notin near THEN {}
  ELSE {t \in near \ {cube} :
          /\ t \notin despawned
          /\ Collider(t) \notin interactions_disabled
          /\ ~(t \in Cubes /\ w.cube_discharge[t] # NoTimer)
          /\ t \notin w.powered}

\* the devices a cube finds in its detection sphere and signals (a body in
\* the hand is on the Ignore layer)
DischargeTargets(w, cube) ==
  IF cube \notin near THEN {}
  ELSE {t \in near \ {cube} :
          /\ t \notin despawned
          /\ t \notin InertDevices
          /\ Collider(t) \notin interactions_disabled
          /\ ~(t \in Cubes /\ w.cube_discharge[t] # NoTimer)
          /\ t \notin w.powered}

\* a plausible slip: the Without<Held> filter is missing
cube_discharge_detection_held_too(w) ==
  LET matched(c) == c \in Cubes /\ c \in w.powered /\ c \notin despawned
                    /\ w.powering_up[c] = NoTimer
      cmdsOf(c) ==
        IF matched(c) /\ DischargeTargets(w, c) # {}
        THEN ForEach(InOrder(DischargeTargets(w, c), BodySeq),
                     LAMBDA t : <<Cmd("DirectSignal", t)>>)
             \o <<Cmd("RemovePowered", c), Cmd("InsertCubeDischarge", c)>>
        ELSE <<>>
  IN [w |-> w, cmds |-> ForEach(BodySeq, cmdsOf)]

\* a Powered cube that is neither Held nor PoweringUp signals every target
\* in range, then loses Powered and starts its cooldown
cube_discharge_detection(w) ==
  LET matched(c) == c \in Cubes /\ c \in w.powered /\ c \notin despawned
                    /\ held[c] = "none" /\ w.powering_up[c] = NoTimer
      cmdsOf(c) ==
        IF matched(c) /\ DischargeTargets(w, c) # {}
        THEN ForEach(InOrder(DischargeTargets(w, c), BodySeq),
                     LAMBDA t : <<Cmd("DirectSignal", t)>>)
             \o <<Cmd("RemovePowered", c), Cmd("InsertCubeDischarge", c)>>
        ELSE <<>>
  IN [w |-> w, cmds |-> ForEach(BodySeq, cmdsOf)]

\* a plausible slip: the cube is powered again whether or not it carries
\* PoweredBy
update_cube_discharge_timers_always(w) ==
  LET ticked == [c \in Cubes |->
                   IF w.cube_discharge[c] = NoTimer THEN NoTimer
                   ELSE Tick(w.cube_discharge[c], FixedDeltaMs, CubeDurationMs)]
      cmdsOf(c) ==
        IF c \in Cubes /\ ticked[c] # NoTimer /\ Finished(ticked[c], CubeDurationMs)
        THEN <<Cmd("RemoveCubeDischarge", c), Cmd("TryInsertPowered", c)>>
        ELSE <<>>
  IN [w |-> [w EXCEPT !.cube_discharge = ticked], cmds |-> ForEach(BodySeq, cmdsOf)]

\* every CubeDischarge ticks; a finished one is removed and the cube is
\* powered again when it carries PoweredBy
update_cube_discharge_timers(w) ==
  LET ticked == [c \in Cubes |->
                   IF w.cube_discharge[c] = NoTimer THEN NoTimer
                   ELSE Tick(w.cube_discharge[c], FixedDeltaMs, CubeDurationMs)]
      cmdsOf(c) ==
        IF c \in Cubes /\ ticked[c] # NoTimer /\ Finished(ticked[c], CubeDurationMs)
        THEN <<Cmd("RemoveCubeDischarge", c)>>
             \o (IF w.powered_by[c] # None THEN <<Cmd("TryInsertPowered", c)>> ELSE <<>>)
        ELSE <<>>
  IN [w |-> [w EXCEPT !.cube_discharge = ticked], cmds |-> ForEach(BodySeq, cmdsOf)]

\* every PoweringUp ticks; a finished one is removed
update_powering_up_timers(w) ==
  LET ticked == [c \in Cubes |->
                   IF w.powering_up[c] = NoTimer THEN NoTimer
                   ELSE Tick(w.powering_up[c], FixedDeltaMs, CubeDurationMs)]
      cmdsOf(c) ==
        IF c \in Cubes /\ ticked[c] # NoTimer /\ Finished(ticked[c], CubeDurationMs)
        THEN <<Cmd("RemovePoweringUp", c)>> ELSE <<>>
  IN [w |-> [w EXCEPT !.powering_up = ticked], cmds |-> ForEach(BodySeq, cmdsOf)]

RunSystem(name, w) ==
  CASE name = "cube_receive_power" -> cube_receive_power(w)
    [] name = "cube_discharge_detection" -> cube_discharge_detection(w)
    [] name = "update_cube_discharge_timers" -> update_cube_discharge_timers(w)
    [] name = "update_powering_up_timers" -> update_powering_up_timers(w)

\* the queued commands of the cube systems, applied in order; a command on
\* a component that is absent (or, for try_insert, present) leaves the
\* other components alone
RECURSIVE ApplyCubeCommands(_, _)
ApplyCubeCommands(w, cmds) ==
  IF cmds = <<>> THEN w
  ELSE LET c == Head(cmds)
           t == c.target
           w1 == CASE c.type = "DirectSignal" -> DirectSignal(w, t)
                   [] c.type = "RemovePowered" -> RemovePowered(w, t)
                   [] c.type = "TryInsertPowered" -> InsertPowered(w, t)
                   [] c.type = "InsertCubeDischarge" -> [w EXCEPT !.cube_discharge[t] = 0]
                   [] c.type = "RemoveCubeDischarge" -> [w EXCEPT !.cube_discharge[t] = NoTimer]
                   [] c.type = "InsertPoweringUp" -> [w EXCEPT !.powering_up[t] = 0]
                   [] c.type = "RemovePoweringUp" ->
                        [w EXCEPT !.powering_up[t] = NoTimer,
                                  !.warmed_up = IF w.powering_up[t] # NoTimer
                                                THEN @ \cup {t} ELSE @]
       IN ApplyCubeCommands(w1, Tail(cmds))

\* the systems run in the order ord; their commands are applied after each
\* system (sync) or all at the end of the schedule
RECURSIVE RunSystems(_, _, _, _)
RunSystems(w, ord, queue, sync) ==
  IF ord = <<>> THEN ApplyCubeCommands(w, queue)
  ELSE LET r == RunSystem(Head(ord), w)
       IN IF sync
          THEN RunSystems(ApplyCubeCommands(r.w, r.cmds), Tail(ord), <<>>, sync)
          ELSE RunSystems(r.w, Tail(ord), queue \o r.cmds, sync)

\* FixedUpdate: one run of the cube systems.  They are not ordered among
\* themselves, so every order is a possible schedule, with or without a
\* synchronisation point between them.
CubeFixedUpdate ==
  \E ord \in Orders(CubeSystems), sync \in BOOLEAN :
    /\ Commit(RunSystems(World, ord, <<>>, sync))
    /\ step' = "cube_fixed_update"
    /\ call' = NoCall
    /\ UNCHANGED <<extVars, plateVars, handVars, buttonVars, near>>

\* FixedUpdate, system by system: a cube system that has not run in the
\* current tick runs, and its commands are applied before the next one
RunCubeSystem ==
  \E name \in CubeSystems \ ran :
    LET r == RunSystem(name, World)
    IN /\ Commit(ApplyCubeCommands(r.w, r.cmds))
       /\ ran' = IF ran \cup {name} = CubeSystems THEN {} ELSE ran \cup {name}
       /\ step' = name
       /\ call' = NoCall
       /\ UNCHANGED <<restVars, plateVars, handVars, buttonVars, near>>

\* the cubes move: the bodies of n end within the discharge radius of each
\* other
MoveBodies(bodies) ==
  \E n \in SUBSET bodies :
    /\ n # near
    /\ Cardinality(n) # 1
    /\ near' = n
    /\ step' = "move_bodies"
    /\ call' = NoCall
    /\ UNCHANGED <<extVars, worldVars, plateVars, handVars, buttonVars>>

(***************************************************************************)
(* The player's right hand.  A hand h is the record of the components      *)
(* named by handVars.                                                      *)
(***************************************************************************)
Hand ==
  [held |-> held, held_object |-> held_object, added_held |-> added_held,
   interactions_disabled |-> interactions_disabled, shape_caster |-> shape_caster,
   despawned |-> despawned, transform |-> transform]

CommitHand(h) ==
  /\ held' = h.held
  /\ held_object' = h.held_object
  /\ added_held' = h.added_held
  /\ interactions_disabled' = h.interactions_disabled
  /\ shape_caster' = h.shape_caster
  /\ despawned' = h.despawned
  /\ transform' = h.transform

\* observer of OnRemove<Held>: the colliders become interactable again and
\* the hand is emptied
released_item(h, body) ==
  [h EXCEPT !.interactions_disabled = @ \ {Collider(body)},
            !.held_object = None,
            !.shape_caster = FALSE]

\* a plausible slip: the hand is emptied but the component stays
RemoveHeldKeepComponent(h, body) ==
  IF h.held[body] = "none" THEN h ELSE released_item(h, body)

\* commands.entity(body).remove::<Held>() with its OnRemove observer
RemoveHeld(h, body) ==
  IF h.held[body] = "none" THEN h
  ELSE [released_item(h, body) EXCEPT !.held[body] = "none", !.added_held = @ \ {body}]

\* commands.entity(body).insert(Held::default())
InsertHeld(h, body) ==
  [h EXCEPT !.held[body] = "held",
            !.added_held = IF h.held[body] = "none" THEN @ \cup {body} ELSE @]

weighted_cube_interaction(h, target) ==
  IF ColliderOf(target) # None /\ h.held_object = None
  THEN InsertHeld([h EXCEPT !.held_object = ColliderOf(target)], ColliderOf(target))
  ELSE h

signal_spitter_interaction(h, target) ==
  IF ColliderOf(target) # None /\ h.held_object = None
  THEN InsertHeld([h EXCEPT !.held_object = ColliderOf(target)], ColliderOf(target))
  ELSE h

\* the colliders that carry Interactable, and their primary action
PickUpColliders == {Collider(b) : b \in Pickables}
Interactables == PickUpColliders \cup {BigRedButtonMesh}
primary_action(collider) == IF collider \in PickUpColliders THEN "PickUp" ELSE "Press"

\* the observers of Interacted, by the entity they are attached to
Interacted(h, target) ==
  CASE ColliderOf(target) \in Cubes -> weighted_cube_interaction(h, target)
    [] ColliderOf(target) \in Spitters -> signal_spitter_interaction(h, target)
    [] OTHER -> h

\* observer of the interact input; hit is what the ray from the camera hits
\* (None: nothing)
interact(h, hit) ==
  LET can_interact == ~(h.held_object # None /\ primary_action(hit) = "PickUp")
      found_hit == /\ hit # None
                   /\ hit \in Interactables
                   /\ hit \notin h.interactions_disabled
                   /\ can_interact
  IN IF found_hit THEN Interacted(h, hit)
     ELSE IF h.held_object # None /\ h.held[h.held_object] = "releasable"
          THEN RemoveHeld(h, h.held_object)
          ELSE h

\* what the ray can hit: a collider on the Default or Device layer
RayTargets(h) ==
  {None} \cup {BigRedButtonMesh}
  \cup {Collider(b) : b \in {x \in Pickables : x \notin h.despawned
                                           /\ Collider(x) \notin h.interactions_disabled}}

Interact ==
  \E hit \in RayTargets(Hand) :
    /\ CommitHand(interact(Hand, hit))
    /\ step' = "interact"
    /\ call' = [target |-> hit, collider |-> None]
    /\ UNCHANGED <<extVars, worldVars, plateVars, buttonVars, near>>

\* Update: the bodies whose Held was just added leave the Device layer, and
\* the player gets the ShapeCaster
picked_up_item(h) ==
  LET picked == {b \in h.added_held : h.held[b] # "none"}
  IN IF picked = {} THEN [h EXCEPT !.added_held = {}]
     ELSE [h EXCEPT !.added_held = {},
                    !.interactions_disabled = @ \cup {Collider(b) : b \in picked},
                    !.held_object = CHOOSE b \in picked : TRUE,
                    !.shape_caster = TRUE]

PickedUpItem ==
  /\ CommitHand(picked_up_item(Hand))
  /\ step' = "picked_up_item"
  /\ call' = NoCall
  /\ UNCHANGED <<extVars, worldVars, plateVars, buttonVars, near>>

\* PreUpdate: the held body follows the camera; it can be released when it
\* is projected onto a flat surface
project_held_placable_item(h, is_flat_surface) ==
  IF h.held_object # None /\ h.shape_caster
  THEN [h EXCEPT !.transform[h.held_object] = "carried",
                 !.held[h.held_object] =
                    IF @ = "none" THEN "none"
                    ELSE IF is_flat_surface THEN "releasable" ELSE "held"]
  ELSE h

ProjectHeldPlacableItem ==
  \E is_flat_surface \in BOOLEAN :
    /\ held_object # None
    /\ CommitHand(project_held_placable_item(Hand, is_flat_surface))
    /\ step' = "project_held_placable_item"
    /\ call' = NoCall
    /\ UNCHANGED <<extVars, worldVars, plateVars, buttonVars, near>>

(***************************************************************************)
(* Discharge and dissolve gates.  A game g is the pair of a world and a    *)
(* hand.                                                                   *)
(***************************************************************************)
Game == [w |-> World, h |-> Hand]

\* Dissolveable.respawn_transform: the spitters respawn where they were
\* registered, the cubes of the level have none and are despawned
Dissolveables == Pickables
HasRespawnTransform(body) == body \in Spitters

\* insert(Tombstone).despawn(): every component of the body goes
Despawn(g, body) ==
  IF body \in g.h.despawned THEN g
  ELSE LET h1 == RemoveHeld(g.h, body)
           w1 == RemovePowered(g.w, body)
       IN [w |-> IF body \in Cubes
                 THEN [w1 EXCEPT !.powered_by[body] = None,
                                 !.cube_discharge[body] = NoTimer,
                                 !.powering_up[body] = NoTimer,
                                 !.warmed_up = @ \ {body}]
                 ELSE w1,
           h |-> [h1 EXCEPT !.despawned = @ \cup {body}]]

\* insert(respawn_transform)
Respawn(g, body) == [g EXCEPT !.h.transform[body] = "spawn"]

\* what the dissolve gate does to the body of a collider
dissolve_collider(g, collider) ==
  IF ColliderOf(collider) = None THEN g
  ELSE LET body == ColliderOf(collider)
           held_entity == g.h.held_object
       IN IF body \in Dissolveables /\ body \notin g.h.despawned
          THEN IF HasRespawnTransform(body) THEN Respawn(g, body) ELSE Despawn(g, body)
          ELSE IF body = PlayerEntity /\ held_entity # None
                  /\ held_entity \in Dissolveables /\ held_entity \notin g.h.despawned
               THEN IF HasRespawnTransform(held_entity)
                    THEN [Respawn(g, held_entity) EXCEPT !.h = RemoveHeld(@, held_entity)]
                    ELSE Despawn(g, held_entity)
               ELSE g

\* a plausible slip: the parent of the target is not looked at
handle_dissolve_collisions_any_target(g, target, collider) ==
  dissolve_collider(g, collider)

\* observer of OnCollisionStart on the dissolve gate meshes and on the player
handle_dissolve_collisions(g, target, collider) ==
  IF ParentOf(target) = None \/ ParentOf(target) \notin DissolveGates THEN g
  ELSE dissolve_collider(g, collider)

\* observer of OnCollisionStart on the discharge gate meshes
handle_discharge_collisions(g, target, collider) ==
  IF ParentOf(target) = None \/ ParentOf(target) \notin DischargeGates THEN g
  ELSE IF ColliderOf(collider) = None THEN g
  ELSE LET body == ColliderOf(collider)
           held_entity == g.h.held_object
       IN IF body \in g.w.powered
          THEN [g EXCEPT !.w = RemovePowered(@, body)]
          ELSE IF body = PlayerEntity /\ held_entity # None /\ held_entity \in g.w.powered
               THEN [g EXCEPT !.w = RemovePowered(@, held_entity)]
               ELSE g

\* the entities a collision event can be delivered to, and the colliders
\* that can start a collision: the handlers are applied to every pair
CollisionTargets == {DischargeGateMesh, DissolveGateMesh, PlayerEntity}
CollidingColliders(h) ==
  {PlayerEntity, LooseCollider}
  \cup {Collider(b) : b \in {x \in Pickables : x \notin h.despawned
                                           /\ Collider(x) \notin h.interactions_disabled}}

HandleDissolveCollisions ==
  \E target \in CollisionTargets, collider \in CollidingColliders(Hand) :
    LET g == handle_dissolve_collisions(Game, target, collider)
    IN /\ Commit(g.w)
       /\ CommitHand(g.h)
       /\ step' = "handle_dissolve_collisions"
       /\ call' = [target |-> target, collider |-> collider]
       /\ UNCHANGED <<extVars, plateVars, buttonVars, near>>

HandleDischargeCollisions ==
  \E target \in CollisionTargets, collider \in CollidingColliders(Hand) :
    LET g == handle_discharge_collisions(Game, target, collider)
    IN /\ Commit(g.w)
       /\ CommitHand(g.h)
       /\ step' = "handle_discharge_collisions"
       /\ call' = [target |-> target, collider |-> collider]
       /\ UNCHANGED <<extVars, plateVars, buttonVars, near>>

\* the Dissolveable bodies roll or are pushed away from where they spawned
MoveDevice ==
  \E b \in Pickables :
    /\ b \notin despawned
    /\ held[b] = "none"
    /\ transform[b] = "spawn"
    /\ transform' = [transform EXCEPT ![b] = "moved"]
    /\ step' = "move_device"
    /\ call' = NoCall
    /\ UNCHANGED <<extVars, worldVars, plateVars, buttonVars, near, held, held_object, added_held,
                   interactions_disabled, shape_caster, despawned>>

(***************************************************************************)
(* Power buttons.                                                          *)
(***************************************************************************)
\* ButtonTargets absent: the button is not registered yet
NoTargets == <<"no_targets">>
\* the delay of a DelayedSignalTimer, in milliseconds
ButtonDelayMs == 500
\* the presses and frame lengths the model follows
MaxPresses == 2
FrameQuantumMs == 250
MaxFrameSteps == 2
Presses == 1..MaxPresses
FrameDeltas == {FrameQuantumMs * k : k \in 1..MaxFrameSteps}
\* the order in which Children lists the entities of the room
ChildSeq == CHOOSE s \in Orders(SiblingCandidates \cup {ButtonEntity}) : TRUE

\* the loop of register_buttons over the children of the button's parent
SiblingTargets(children) ==
  SelectSeq(InOrder(children, ChildSeq),
            LAMBDA sibling : sibling # ButtonEntity /\ sibling \notin Doors)

\* FixedPreUpdate, once for the Added<PowerButton>
RegisterButtons ==
  /\ button_targets = NoTargets
  /\ button_targets' = SiblingTargets(room_children)
  /\ step' = "register_buttons"
  /\ call' = NoCall
  /\ UNCHANGED <<extVars, worldVars, plateVars, handVars, near,
                 room_children, delayed_signals, delivered, since_press>>

Range(seq) == {seq[i] : i \in 1..Len(seq)}

\* observer of Interacted: one DelayedSignalTimer is spawned per target
button_pressed(timers, press, target) ==
  IF ColliderOf(target) = ButtonEntity /\ button_targets # NoTargets
  THEN timers \cup {[press |-> press, target |-> t, elapsed |-> 0] : t \in Range(button_targets)}
  ELSE timers

ButtonPressed ==
  \E target \in {ButtonCollider, BigRedButtonMesh}, press \in Presses :
    /\ since_press[press] = NoTimer
    /\ \A k \in Presses : k < press => since_press[k] # NoTimer
    /\ delayed_signals' = button_pressed(delayed_signals, press, target)
    /\ since_press' = IF ColliderOf(target) = ButtonEntity /\ button_targets # NoTargets
                      THEN [since_press EXCEPT ![press] = 0]
                      ELSE since_press
    /\ step' = "button_pressed"
    /\ call' = [target |-> target, collider |-> None]
    /\ UNCHANGED <<extVars, worldVars, plateVars, handVars, near,
                   room_children, button_targets, delivered>>

\* a plausible slip: a finished timer entity is not despawned
DespawnFinishedNever(timers, finished) == timers

\* commands.entity(timer_entity).try_despawn() for the finished timers
DespawnFinished(timers, finished) == timers \ finished

\* Update: every DelayedSignalTimer ticks by the frame's delta; a finished
\* one triggers DirectSignal on its target and is despawned.  The observers
\* of DirectSignal leave a target that is signalled twice in a frame as the
\* first signal left it, so the world takes one signal per target.
UpdateDelayedSignals ==
  \E delta \in FrameDeltas :
    LET ticked == {[d EXCEPT !.elapsed = Tick(d.elapsed, delta, ButtonDelayMs)] :
                     d \in delayed_signals}
        finished == {d \in ticked : Finished(d.elapsed, ButtonDelayMs)}
        signals == [i \in 1..Len(ChildSeq) |->
                      IF \E d \in finished : d.target = ChildSeq[i]
                      THEN <<Cmd("DirectSignal", ChildSeq[i])>> ELSE <<>>]
    IN /\ delayed_signals # {}
       /\ delayed_signals' = DespawnFinished(ticked, finished)
       /\ delivered' = [k \in Presses |-> [t \in DOMAIN delivered[k] |->
                          IF \E d \in finished : d.press = k /\ d.target = t
                          THEN delivered[k][t] + 1 ELSE delivered[k][t]]]
       /\ since_press' = [k \in Presses |->
                            IF since_press[k] = NoTimer THEN NoTimer
                            ELSE Tick(since_press[k], delta, ButtonDelayMs)]
       /\ Commit(ApplyCubeCommands(World, Flatten(signals)))
       /\ step' = "update_delayed_signals"
       /\ call' = NoCall
       /\ UNCHANGED <<extVars, plateVars, handVars, near, room_children, button_targets>>

(***************************************************************************)
(* Distance culling of rigid bodies (RigidBodyDistanceConfig).             *)
(***************************************************************************)
max_distance == 500
hysteresis == 15
\* distances on both sides of the two thresholds
DistanceSamples == {0, max_distance, max_distance + 1, max_distance + hysteresis,
                    max_distance + hysteresis + 1, 2 * max_distance}
\* player_query.single() fails for no player and for several
PlayerCounts == 0..2

\* a plausible slip: the body is disabled as soon as it is out of range
DisabledAfterNoHysteresis(is_disabled, d) ==
  CASE is_disabled /\ d <= max_distance -> FALSE
    [] ~is_disabled /\ ~(d <= max_distance) -> TRUE
    [] OTHER -> is_disabled

\* the match of rigid_body_distance_system for one body: whether the body
\* carries RigidBodyDisabled once the commands are applied
DisabledAfter(is_disabled, d) ==
  CASE is_disabled /\ d <= max_distance -> FALSE
    [] ~is_disabled /\ ~(d <= max_distance) /\ d > max_distance + hysteresis -> TRUE
    [] OTHER -> is_disabled

rigid_body_distance_system(disabled, dist, n_players) ==
  IF n_players # 1 THEN disabled
  ELSE {b \in Bodies : DisabledAfter(b \in disabled, dist[b])}

\* FixedPreUpdate
RigidBodyDistanceSystem ==
  /\ rigid_body_disabled' = rigid_body_distance_system(rigid_body_disabled, distance, players)
  /\ step' = "rigid_body_distance_system"
  /\ call' = NoCall
  /\ UNCHANGED <<worldVars, plateVars, handVars, buttonVars, near, ran, signal_entities, doorVars, spitterVars,
                 distance, players>>

\* the player or a body moves
MoveRigidBody ==
  \E b \in Bodies, d \in DistanceSamples :
    /\ distance' = [distance EXCEPT ![b] = d]
    /\ step' = "move_rigid_body"
    /\ call' = NoCall
    /\ UNCHANGED <<worldVars, plateVars, handVars, buttonVars, near, ran, signal_entities, doorVars, spitterVars,
                   rigid_body_disabled, players>>

\* a Player entity is spawned or despawned
PlayerCountChanges ==
  \E n \in PlayerCounts :
    /\ n # players
    /\ players' = n
    /\ step' = "player_count"
    /\ call' = NoCall
    /\ UNCHANGED <<worldVars, plateVars, handVars, buttonVars, near, ran, signal_entities, doorVars, spitterVars,
                   rigid_body_disabled, distance>>

(***************************************************************************)
(* Signals in flight and the colliders of the cubes.                       *)
(***************************************************************************)
\* number of Signal entities that can be in flight at once
MaxSignals == 2
SignalIds == {<<"signal", i>> : i \in 1..MaxSignals}
\* colliders without Signal that a cube's collider can start touching
OtherColliders == {PlayerEntity, Collider(<<"pole", 1>>), LooseCollider}

\* OnCollisionStart.body: the rigid body of the collider that started
\* colliding with the target.  A Signal is spawned as RigidBody::Kinematic
\* with its own collider, so it is its own body.
CollidingBody(sigs, collider) ==
  IF collider \in sigs THEN collider ELSE ColliderOf(collider)

\* q_powered of the observer in weighted_cube.rs: With<Powered>, Without<PoweredTimer>
PoweredWithoutTimer(w, body) ==
  body \in w.powered /\ (body \in Poles => w.powered_timer[body] = NoTimer)

\* q_discharging: With<CubeDischarge>
Discharging(w, body) == body \in Cubes /\ w.cube_discharge[body] # NoTimer

\* weighted_cube.rs: the observer of OnCollisionStart on a cube's collider
cube_consume_signal(w, sigs, target, collider) ==
  IF collider \in sigs
  THEN LET body == IF ColliderOf(target) # None THEN ColliderOf(target) ELSE target
       IN IF ~PoweredWithoutTimer(w, body) /\ ~Discharging(w, body)
          THEN <<Cmd("DirectSignal", body), Cmd("Despawn", collider)>>
          ELSE <<>>
  ELSE <<>>

\* signals.rs: the observer that signals_plugin attaches to the same
\* colliders; device_body is OnCollisionStart.body
signals_cube_consume_signal(w, sigs, collider, device_body) ==
  IF device_body # None /\ collider \in sigs /\ device_body \notin w.powered
  THEN <<Cmd("InsertPowered", device_body), Cmd("Despawn", collider)>>
  ELSE <<>>

\* the entities a command queue despawns
DespawnedBy(cmds) ==
  {cmds[i].target : i \in {j \in 1..Len(cmds) : cmds[j].type = "Despawn"}}

\* the commands of a queue that act on the power network: a component
\* inserted on an entity that the same queue despawns is gone with it
NetworkCommands(cmds) ==
  SelectSeq(cmds, LAMBDA c : c.type # "Despawn" /\ c.target \notin DespawnedBy(cmds))

\* how many DirectSignals a command queue triggers on a body
DirectSignalsOn(cmds, body) ==
  Len(SelectSeq(cmds, LAMBDA c : c.type = "DirectSignal" /\ c.target = body))

\* signal_after_delay: a signal spitter's delay has elapsed, a Signal is spawned
SpawnSignal ==
  \E s \in SignalIds \ signal_entities :
    /\ signal_entities' = signal_entities \cup {s}
    /\ step' = "signal_after_delay"
    /\ call' = NoCall
    /\ UNCHANGED <<distanceVars, spitterVars, doorVars, ran, worldVars, plateVars, handVars, buttonVars, near>>

\* despawn_after_system: the lifetime of a Signal that met nothing ends
DespawnAfterSystem ==
  \E s \in signal_entities :
    /\ signal_entities' = signal_entities \ {s}
    /\ step' = "despawn_after_system"
    /\ call' = NoCall
    /\ UNCHANGED <<distanceVars, spitterVars, doorVars, ran, worldVars, plateVars, handVars, buttonVars, near>>

\* OnCollisionStart on the collider of a cube: both observers run on the
\* state before the event, then their commands are applied
CubeCollisionStart ==
  \E cube \in Cubes, collider \in signal_entities \cup OtherColliders :
    LET target == Collider(cube)
        cmds == cube_consume_signal(World, signal_entities, target, collider)
                \o signals_cube_consume_signal(World, signal_entities, collider,
                                               CollidingBody(signal_entities, collider))
    IN /\ cube \notin despawned
       /\ Commit(ApplyCubeCommands(World, NetworkCommands(cmds)))
       /\ signal_entities' = signal_entities \ DespawnedBy(cmds)
       /\ step' = "cube_collision_start"
       /\ call' = [target |-> target, collider |-> collider,
                   direct_signals |-> DirectSignalsOn(cmds, cube)]
       /\ UNCHANGED <<distanceVars, spitterVars, doorVars, ran, plateVars, handVars, buttonVars, near>>

(***************************************************************************)
(* Doors and the poles that power them.                                    *)
(***************************************************************************)
\* number of door poles in the level
NumDoorPoles == 3
\* largest ExtraDoorPowerRequired.amount in the level
MaxExtraPower == 1
DOOR_LIFT_HEIGHT == 20
\* a door without ExtraDoorPowerRequired
NoExtra == -1
ExtraAmounts == 0..MaxExtraPower
DoorPoles == {<<"pole", i>> : i \in 1..NumDoorPoles}
LevelDoors == {<<"door", 1>>, <<"door", 2>>}
\* the rooms of the two doors, and a room without a door
DoorRooms == {<<"room", 1>>, <<"room", 2>>, <<"room", 3>>}
\* ChildOf of a door
DoorParent(door) == <<"room", door[2]>>
\* heights a door passes through: closed, the threshold of "open", just
\* above it, half way and fully lifted
DoorHeights == {0, 1, 2, DOOR_LIFT_HEIGHT \div 2, DOOR_LIFT_HEIGHT}

\* register_doors: every DoorPole sibling of a door gets PowersDoor(door)
register_doors(parent) ==
  [p \in DoorPoles |->
     IF \E d \in LevelDoors : DoorParent(d) = parent[p]
     THEN CHOOSE d \in LevelDoors : DoorParent(d) = parent[p]
     ELSE None]

\* the order in which a query iterates the poles
PoleSeq == CHOOSE s \in Orders(DoorPoles) : TRUE

\* q_powered_poles: the PowersDoor of every entity With<DoorPole>, With<Powered>
q_powered_poles(pw, pd) ==
  LET matched == SelectSeq(PoleSeq, LAMBDA p : p \in pw /\ pd[p] # None)
  IN [i \in 1..Len(matched) |-> pd[matched[i]]]

\* a plausible slip: the filter on the door is missing
count_powered_poles_any_door(door_entity, q_poles) == Len(q_poles)

count_powered_poles_for_door(door_entity, q_poles) ==
  Len(SelectSeq(q_poles, LAMBDA pole_powers_door : pole_powers_door = door_entity))

\* extra_power_required.map(|e| e.amount + 1).unwrap_or(1)
required_count(extra_power_required) ==
  IF extra_power_required = NoExtra THEN 1 ELSE extra_power_required + 1

\* the body of the loop of check_door_power_requirements for one door: the
\* animation the door has after the commands
check_door(door_entity, pw, pd, extra, y, tween) ==
  LET powered_count == count_powered_poles_for_door(door_entity, q_powered_poles(pw, pd))
      should_be_open == powered_count >= required_count(extra[door_entity])
      is_currently_open == y[door_entity] > 1
  IN IF should_be_open /\ ~is_currently_open THEN "open"
     ELSE IF ~should_be_open /\ is_currently_open THEN "close"
     ELSE tween[door_entity]

\* Update: check_door_power_requirements
CheckDoorPowerRequirements ==
  /\ door_tween' = [d \in LevelDoors |->
        check_door(d, powered, powers_door, extra_door_power_required, door_y, door_tween)]
  /\ step' = "check_door_power_requirements"
  /\ call' = NoCall
  /\ UNCHANGED <<distanceVars, spitterVars, signal_entities, powers_door, extra_door_power_required,
                 door_y, ran, worldVars, plateVars, handVars, buttonVars, near>>

\* the animation of a door advances towards its target; at the target it
\* is finished and despawned (DespawnOnFinish)
DoorTweenStep ==
  \E d \in LevelDoors, y \in DoorHeights :
    LET target == IF door_tween[d] = "open" THEN DOOR_LIFT_HEIGHT ELSE 0
    IN /\ door_tween[d] # "none"
       /\ IF door_tween[d] = "open"
          THEN door_y[d] < y \/ (y = target /\ door_y[d] = target)
          ELSE y < door_y[d] \/ (y = target /\ door_y[d] = target)
       /\ door_y' = [door_y EXCEPT ![d] = y]
       /\ door_tween' = [door_tween EXCEPT ![d] = IF y = target THEN "none" ELSE @]
       /\ step' = "door_tween"
       /\ call' = NoCall
       /\ UNCHANGED <<distanceVars, spitterVars, signal_entities, powers_door, extra_door_power_required,
                      ran, worldVars, plateVars, handVars, buttonVars, near>>

\* a door pole gains Powered (a DirectSignal, a charge pad) or loses it
\* (its PoweredTimer ends, its pad loses power)
DoorPolePowerChanges ==
  \E p \in DoorPoles :
    /\ powered' = IF p \in powered THEN powered \ {p} ELSE powered \cup {p}
    /\ step' = "door_pole_power"
    /\ call' = NoCall
    /\ UNCHANGED <<restVars, ran, powered_by, pad_detector, powered_timer, since_signal,
                   cube_discharge, powering_up, added_powered, warmed_up,
                   plateVars, handVars, buttonVars, near>>

(***************************************************************************)
(* The signal spitter and its SignalAfterDelay children.                   *)
(***************************************************************************)
\* number of SignalAfterDelay entities that can wait at once
MaxWaiting == 3
\* largest number of colliders with a material on the spitter
MaxMaterialColliders == 2
\* ContinuousEmission::default().interval_ms
ContinuousIntervalMs == 1000
WaitingIds == 1..MaxWaiting
TheSpitter == <<"spitter", 1>>

\* `count` children SignalAfterDelay { delay_ms, spawn_time: time.elapsed() }
\* are added to the spitter; by marks the handler that added them
WithChildren(wait, count, delay_ms, by) ==
  LET free == WaitingIds \ {w.id : w \in wait}
      ids == CHOOSE c \in SUBSET free :
               /\ Cardinality(c) = count
               /\ \A i \in c, j \in free \ c : i < j
  IN wait \cup {[id |-> i, elapsed |-> 0, delay_ms |-> delay_ms, by |-> by] : i \in ids}

\* observer of DirectSignal on a signal spitter: one SignalAfterDelay per
\* collider with a material; Powered is not looked at and not inserted
signal_spitter_direct_signal(wait, colliders_with_material) ==
  WithChildren(wait, colliders_with_material, POWER_ANIMATION_DURATION_SEC * 1000, "direct_signal")

\* observer of OnAdd<Powered>: continuous emission starts
signal_spitter_receive_power(wait) ==
  WithChildren(wait, 1, ContinuousIntervalMs, "receive_power")

\* observer of OnRemove<Powered>: every SignalAfterDelay child is despawned
signal_spitter_lose_power(wait) == {}

\* FixedUpdate: a Powered spitter without a pending SignalAfterDelay gets one
handle_continuous_signal_emission(wait, pw) ==
  IF TheSpitter \in pw /\ wait = {}
  THEN WithChildren(wait, 1, ContinuousIntervalMs, "continuous")
  ELSE wait

\* a DirectSignal is triggered on the spitter
SpitterDirectSignal ==
  /\ TheSpitter \notin despawned
  /\ Cardinality(waiting) + material_colliders <= MaxWaiting
  /\ waiting' = signal_spitter_direct_signal(waiting, material_colliders)
  /\ step' = "signal_spitter_direct_signal"
  /\ call' = [target |-> TheSpitter, collider |-> None]
  /\ UNCHANGED <<distanceVars, signal_entities, doorVars, material_colliders, ran,
                 worldVars, plateVars, handVars, buttonVars, near>>

\* the spitter gains Powered (it is charged by a pad) or loses it
SpitterPowerChanges ==
  /\ TheSpitter \notin despawned
  /\ TheSpitter \notin powered => Cardinality(waiting) < MaxWaiting
  /\ powered' = IF TheSpitter \in powered THEN powered \ {TheSpitter}
                ELSE powered \cup {TheSpitter}
  /\ waiting' = IF TheSpitter \in powered THEN signal_spitter_lose_power(waiting)
                ELSE signal_spitter_receive_power(waiting)
  /\ step' = "spitter_power"
  /\ call' = NoCall
  /\ UNCHANGED <<distanceVars, signal_entities, doorVars, material_colliders, ran,
                 powered_by, pad_detector, powered_timer, since_signal,
                 cube_discharge, powering_up, added_powered, warmed_up,
                 plateVars, handVars, buttonVars, near>>

HandleContinuousSignalEmission ==
  /\ waiting' = handle_continuous_signal_emission(waiting, powered)
  /\ step' = "handle_continuous_signal_emission"
  /\ call' = NoCall
  /\ UNCHANGED <<distanceVars, signal_entities, doorVars, material_colliders, ran,
                 worldVars, plateVars, handVars, buttonVars, near>>

\* Update, one frame later: signal_after_delay spawns a Signal for every
\* SignalAfterDelay whose delay has elapsed and removes the component
SignalAfterDelay ==
  \E dt \in FrameDeltas :
    LET ticked == {[w EXCEPT !.elapsed = @ + dt] : w \in waiting}
        due == {w \in ticked : w.elapsed >= w.delay_ms}
    IN /\ waiting # {}
       /\ TheSpitter \notin despawned
       /\ \E new \in SUBSET (SignalIds \ signal_entities) :
            /\ Cardinality(new) = Cardinality(due)
            /\ signal_entities' = signal_entities \cup new
            /\ call' = [target |-> None, collider |-> None,
                        spawned |-> {w.id : w \in due}, signals |-> new]
       /\ waiting' = ticked \ due
       /\ step' = "signal_after_delay"
       /\ UNCHANGED <<distanceVars, doorVars, material_colliders, ran,
                      worldVars, plateVars, handVars, buttonVars, near>>

(***************************************************************************)
(* Initial state: the level as loaded, after the register_* systems ran.   *)
(***************************************************************************)
PowerEntities == Bodies \cup Pads

InitWorld ==
  /\ powered = {}
  /\ powered_by = register_pressure_plates([e \in PowerEntities |-> None])
  /\ pad_detector = [p \in Pads |-> [charged_entity |-> None, overlapping_entities |-> {}]]
  /\ powered_timer = [p \in Poles |-> NoTimer]
  /\ since_signal = [p \in Poles |-> NoTimer]
  /\ cube_discharge = [c \in Cubes |-> NoTimer]
  /\ powering_up = [c \in Cubes |-> NoTimer]
  /\ added_powered = {}
  /\ warmed_up = {}

InitPlate ==
  /\ plate_detector = [pl \in Plates |-> [overlapping_entities |-> {}, is_pressed |-> FALSE]]
  /\ plate_events = [pl \in Plates |-> <<>>]
  /\ last_plate_event = [pl \in Plates |-> NoEvent]

(***************************************************************************)
(* The pressure-plate / charge-pad specification.                          *)
(***************************************************************************)
InitHand ==
  /\ held = [b \in Pickables |-> "none"]
  /\ held_object = None
  /\ added_held = {}
  /\ interactions_disabled = {}
  /\ shape_caster = FALSE
  /\ despawned = {}
  /\ transform = [b \in Pickables |-> "spawn"]

InitButton ==
  /\ button_targets = NoTargets
  /\ delayed_signals = {}
  /\ delivered = [k \in Presses |-> [t \in SiblingCandidates \cup {ButtonEntity} |-> 0]]
  /\ since_press = [k \in Presses |-> NoTimer]

\* every body enabled and next to the one player
InitDistance ==
  /\ rigid_body_disabled = {}
  /\ distance = [b \in Bodies |-> 0]
  /\ players = 1

\* the level without the relation of the door poles to the doors
InitBodies ==
  /\ InitWorld
  /\ InitDistance
  /\ ran = {}
  /\ signal_entities = {}
  /\ door_y = [d \in LevelDoors |-> 0]
  /\ door_tween = [d \in LevelDoors |-> "none"]
  /\ waiting = {}
  /\ InitPlate
  /\ InitHand
  /\ InitButton
  /\ near = {}
  /\ step = "init"
  /\ call = NoCall

\* every pole stands in the room of the first door, and no door asks for
\* extra power
InitLevel ==
  /\ InitBodies
  /\ powers_door = register_doors([p \in DoorPoles |-> DoorParent(<<"door", 1>>)])
  /\ extra_door_power_required = [d \in LevelDoors |-> NoExtra]
  /\ material_colliders = 1

Init ==
  /\ InitLevel
  /\ room_children = SiblingCandidates \cup {ButtonEntity}

\* every room the power button can stand in
InitRooms ==
  /\ InitLevel
  /\ \E siblings \in SUBSET SiblingCandidates : room_children = siblings \cup {ButtonEntity}

\* every placement of the poles in the rooms, and every ExtraDoorPowerRequired
InitDoors ==
  /\ InitBodies
  /\ room_children = SiblingCandidates \cup {ButtonEntity}
  /\ \E parent \in [DoorPoles -> DoorRooms] : powers_door = register_doors(parent)
  /\ \E extra \in [LevelDoors -> {NoExtra} \cup ExtraAmounts] :
       extra_door_power_required = extra
  /\ material_colliders = 1

\* a spitter with any number of colliders that carry a material
InitSpitter ==
  /\ InitBodies
  /\ room_children = SiblingCandidates \cup {ButtonEntity}
  /\ powers_door = register_doors([p \in DoorPoles |-> DoorParent(<<"door", 1>>)])
  /\ extra_door_power_required = [d \in LevelDoors |-> NoExtra]
  /\ material_colliders \in 0..MaxMaterialColliders

vars == <<powered, powered_by, plate_detector, plate_events, last_plate_event,
          pad_detector, powered_timer, since_signal, cube_discharge, powering_up,
          added_powered, warmed_up, near, held, held_object, added_held,
          interactions_disabled, shape_caster, despawned, transform, room_children,
          button_targets, delayed_signals, delivered, since_press,
          rigid_body_disabled, distance, players, ran, signal_entities,
          powers_door, extra_door_power_required, door_y, door_tween,
          waiting, material_colliders, step, call>>

(***************************************************************************)
(* The specifications, one per group of devices.                           *)
(***************************************************************************)
\* pressure plates and charge pads, every body free to stand on every pad
NextPad == UpdateChargePadOverlaps(Pads, Movables, {}) \/ UpdatePressurePlateOverlaps

SpecPad == Init /\ [][NextPad]_vars

\* a door pole that is signalled, and that stands in the area of the pad of
\* the plate, onto which the cubes are carried
NextPole ==
  \/ DeliverDirectSignal(Poles)
  \/ UpdatePoweredTimers
  \/ UpdateChargePadOverlaps({<<"pad", 1>>}, Cubes, Poles)
  \/ UpdatePressurePlateOverlaps

SpecPole == Init /\ [][NextPole]_vars

\* the cubes, signalled, charged by the pad of the plate, and discharging
\* into the bodies near them
NextCube ==
  \/ DeliverDirectSignal(Cubes \cup Poles)
  \/ CubeFixedUpdate
  \/ MoveBodies(Cubes \cup Poles)
  \/ UpdatePoweredTimers
  \/ UpdateChargePadOverlaps({<<"pad", 1>>}, Cubes, {})
  \/ UpdatePressurePlateOverlaps

SpecCube == Init /\ [][NextCube]_vars

\* the player, the bodies it carries and the gates it walks through
NextPlayer ==
  \/ Interact
  \/ PickedUpItem
  \/ ProjectHeldPlacableItem
  \/ MoveDevice
  \/ DeliverDirectSignal(Cubes)
  \/ HandleDissolveCollisions
  \/ HandleDischargeCollisions

SpecPlayer == Init /\ [][NextPlayer]_vars

\* the power button and its delayed signals
NextButton == RegisterButtons \/ ButtonPressed \/ UpdateDelayedSignals

SpecButton == InitRooms /\ [][NextButton]_vars

\* distance culling of the rigid bodies
NextDistance == RigidBodyDistanceSystem \/ MoveRigidBody \/ PlayerCountChanges

SpecDistance == Init /\ [][NextDistance]_vars

\* the cube systems one by one, among poles, an Inert device and a hand that
\* picks the bodies up
NextDischarge ==
  \/ RunCubeSystem
  \/ DeliverDirectSignal(Cubes \cup Poles)
  \/ MoveBodies(Cubes \cup Poles \cup InertDevices)
  \/ UpdatePoweredTimers
  \/ Interact
  \/ PickedUpItem

SpecDischarge == Init /\ [][NextDischarge]_vars

\* the cubes among door poles, met by the Signals of the spitters
NextSignal ==
  \/ SpawnSignal
  \/ DespawnAfterSystem
  \/ CubeCollisionStart
  \/ RunCubeSystem
  \/ MoveBodies(Cubes \cup Poles)
  \/ UpdatePoweredTimers

SpecSignal == Init /\ [][NextSignal]_vars

\* the doors, their poles gaining and losing power
NextDoor == CheckDoorPowerRequirements \/ DoorTweenStep \/ DoorPolePowerChanges

SpecDoor == InitDoors /\ [][NextDoor]_vars

\* the signal spitter: signalled, charged and discharged, emitting
NextSpitter ==
  \/ SpitterDirectSignal
  \/ SpitterPowerChanges
  \/ HandleContinuousSignalEmission
  \/ SignalAfterDelay
  \/ DespawnAfterSystem

SpecSpitter == InitSpitter /\ [][NextSpitter]_vars

(***************************************************************************)
(* Claims about the pressure plates and the charge pads.                   *)
(***************************************************************************)
\* C1: for every charge pad at most one entity carries PoweredBy(pad), and
\* an entity that carries it is the pad's charged_entity.
C1_OneChargedEntity ==
  \A pad \in Pads :
    /\ Cardinality(Powers(powered_by, pad)) <= 1
    /\ \A e \in Powers(powered_by, pad) : pad_detector[pad].charged_entity = e

\* an entity stands on both pads, is charged by both and carries the
\* PoweredBy of one of them, while another body stands on that pad too
C1_Witness ==
  \E e \in Bodies, pad \in Pads, other \in Pads :
    /\ other # pad
    /\ powered_by[e] = pad
    /\ pad_detector[other].charged_entity = e
    /\ Cardinality(pad_detector[pad].overlapping_entities) >= 2

\* C2: after every run of update_pressure_plate_overlaps a plate is pressed
\* exactly when its overlap set is not empty.
C2_PressedIffOverlapped ==
  \A pl \in Plates :
    plate_detector[pl].is_pressed <=> plate_detector[pl].overlapping_entities # {}

\* a run in which two entities entered the empty detection box together
C2_Witness ==
  \E pl \in Plates :
    /\ step = "update_pressure_plate_overlaps"
    /\ plate_detector[pl].is_pressed
    /\ Cardinality(plate_detector[pl].overlapping_entities) = 2
    /\ Len(plate_events[pl]) = 1

EventTypes(events) == [i \in 1..Len(events) |-> events[i].type]

\* C3: a run of update_pressure_plate_overlaps triggers exactly one Pressed
\* when the overlap set goes from empty to non-empty, exactly one Released
\* when it goes from non-empty to empty and nothing otherwise (in particular
\* when one entity leaves as another enters); the events of a plate
\* alternate, starting with Pressed.
C3_EventsAlternate ==
  [][step' = "update_pressure_plate_overlaps" =>
       \A pl \in Plates :
         LET old == plate_detector[pl].overlapping_entities
             new == plate_detector'[pl].overlapping_entities
             ev == EventTypes(plate_events'[pl])
         IN /\ (old = {} /\ new # {}) => ev = <<"Pressed">>
            /\ (old # {} /\ new = {}) => ev = <<"Released">>
            /\ ((old = {}) = (new = {})) => ev = <<>>
            /\ ev # <<>> =>
                 /\ ev[1] # last_plate_event[pl]
                 /\ last_plate_event[pl] = NoEvent => ev[1] = "Pressed"
                 /\ last_plate_event'[pl] = ev[1]]_vars

\* the plate was pressed by two entities entering in the same run, after it
\* had been released before
C3_Witness ==
  \E pl \in Plates :
    /\ step = "update_pressure_plate_overlaps"
    /\ EventTypes(plate_events[pl]) = <<"Pressed">>
    /\ Cardinality(plate_detector[pl].overlapping_entities) = 2

(***************************************************************************)
(* Claims about the door poles.                                            *)
(***************************************************************************)
\* C4: a DirectSignal gives a door pole Powered and a fresh PoweredTimer;
\* the pole loses Powered exactly when 2 seconds have been ticked since its
\* most recent DirectSignal, unless at that moment it is PoweredBy a charge
\* pad that is Powered; the PoweredTimer is removed at expiry either way.
C4_PoleTimedDecay ==
  [][\A p \in Poles :
       LET expires == /\ step' = "update_powered_timers"
                      /\ powered_timer[p] # NoTimer
                      /\ Finished(since_signal'[p], PoleDurationMs)
       IN /\ (step' = "direct_signal" /\ call'.target = p) =>
               (p \in powered' /\ powered_timer'[p] = 0)
          /\ (powered_timer[p] # NoTimer /\ p \in powered /\ p \notin powered') => expires
          /\ expires =>
               /\ powered_timer'[p] = NoTimer
               /\ p \in powered' <=>
                    (p \in powered /\ powered_by[p] \in Pads /\ powered_by[p] \in powered)]_vars

(***************************************************************************)
(* Claims about the weighted cubes.                                        *)
(***************************************************************************)
\* C5: a DirectSignal delivered to a cube that carries Powered or
\* CubeDischarge changes nothing; delivered to a cube with neither, it makes
\* the cube Powered.
C5_SignalPowersIdleCubeOnly ==
  [][(step' = "direct_signal" /\ call'.target \in Cubes) =>
       IF call'.target \in powered \/ cube_discharge[call'.target] # NoTimer
       THEN UNCHANGED <<extVars, worldVars, plateVars, handVars, buttonVars, near>>
       ELSE call'.target \in powered' /\ cube_discharge'[call'.target] = NoTimer]_vars

\* a cube in its discharge cooldown has just been signalled and is not Powered
C5_Witness ==
  /\ step = "direct_signal"
  /\ call.target \in Cubes
  /\ cube_discharge[call.target] # NoTimer
  /\ call.target \notin powered

C7_NoDischargeBeforePoweringUp ==
  [][step' = "cube_fixed_update" =>
       \A c \in Cubes :
         (c \in powered /\ c \notin powered') =>
           \/ c \in warmed_up
           \/ /\ powering_up[c] # NoTimer
              /\ Finished(Tick(powering_up[c], FixedDeltaMs, CubeDurationMs), CubeDurationMs)]_vars

C9_OneHeld ==
  /\ [](Cardinality({b \in Pickables : held[b] # "none"}) <= 1)
  /\ [][(step' = "interact" /\ call'.target \in PickUpColliders /\ held_object # None) =>
          /\ \A b \in Pickables : held'[b] # "none" => held[b] # "none"
          /\ held_object' \in {held_object, None}]_vars

\* the player aimed at another body while holding one, and still holds it
C9_Witness ==
  /\ step = "interact"
  /\ call.target \in PickUpColliders
  /\ held_object # None
  /\ ColliderOf(call.target) # held_object
  /\ held[held_object] # "none"
  /\ ColliderOf(call.target) \notin despawned

(***************************************************************************)
(* Claims about the gates.                                                 *)
(***************************************************************************)
\* C10: a collision handler of a gate changes nothing when its target has
\* no parent, when that parent is not a gate of the handler's kind, and
\* when the collider has no ColliderOf.
C10_GateGuards ==
  [][(/\ step' \in {"handle_dissolve_collisions", "handle_discharge_collisions"}
      /\ \/ ParentOf(call'.target) = None
         \/ ParentOf(call'.target) \notin
              (IF step' = "handle_dissolve_collisions" THEN DissolveGates ELSE DischargeGates)
         \/ ColliderOf(call'.collider) = None)
     => UNCHANGED <<extVars, worldVars, plateVars, handVars, buttonVars, near>>]_vars

\* the player, whose entity carries the dissolve handler and has no parent,
\* has run into a cube that is still there
C10_Witness ==
  /\ step = "handle_dissolve_collisions"
  /\ call.target = PlayerEntity
  /\ ColliderOf(call.collider) \in Cubes
  /\ ColliderOf(call.collider) \notin despawned
  /\ transform[ColliderOf(call.collider)] = "moved"

(***************************************************************************)
(* Claims about distance culling.                                          *)
(***************************************************************************)
\* C11: a run of rigid_body_distance_system with exactly one player gives a
\* body RigidBodyDisabled only when it is farther than max_distance +
\* hysteresis, takes it away only when it is at most max_distance away, and
\* leaves a body in the band between the two as it is; a run without
\* exactly one player changes nothing.
C11_DistanceHysteresis ==
  [][step' = "rigid_body_distance_system" =>
       \A b \in Bodies :
         LET was == b \in rigid_body_disabled
             is == b \in rigid_body_disabled'
         IN /\ players # 1 => (is <=> was)
            /\ (~was /\ is) => distance[b] > max_distance + hysteresis
            /\ (was /\ ~is) => distance[b] <= max_distance
            /\ (distance[b] > max_distance /\ distance[b] <= max_distance + hysteresis)
                 => (is <=> was)
            /\ (players = 1 /\ distance[b] > max_distance + hysteresis) => is
            /\ (players = 1 /\ distance[b] <= max_distance) => ~is]_vars

\* the system has just run with one player, and left an enabled body and a
\* disabled body that both stand in the band as they were
C11_Witness ==
  /\ step = "rigid_body_distance_system"
  /\ players = 1
  /\ \E b, c \in Bodies :
       /\ distance[b] = max_distance + hysteresis
       /\ distance[c] = max_distance + 1
       /\ b \notin rigid_body_disabled
       /\ c \in rigid_body_disabled

(***************************************************************************)
(* Further claims about the charge pads.                                   *)
(***************************************************************************)
\* C12: a run of update_charge_pad_overlaps gives no body Powered, and no
\* body a PoweredBy pointing at a pad, unless that pad is Powered: neither
\* for an entering body nor for a body promoted to charged_entity.
C12_UnpoweredPadGivesNoPower ==
  [][step' = "update_charge_pad_overlaps" =>
       \A e \in Bodies :
         /\ (powered_by'[e] \in Pads /\ powered_by'[e] # powered_by[e])
              => powered_by'[e] \in powered
         /\ (e \notin powered /\ e \in powered')
              => \E p \in Pads : p \in powered /\ pad_detector'[p].charged_entity = e]_vars

\* C13: a charge pad that is PoweredBy a pressure plate carries Powered
\* exactly while that plate is pressed, whatever stands on or leaves the pad.
C13_PadPoweredWhilePressed ==
  \A pad \in Pads, plate \in Plates :
    powered_by[pad] = plate => (pad \in powered <=> plate_detector[plate].is_pressed)

\* the plate was pressed and released again, and its pad, which still
\* charges a body, is without Powered
C13_Witness ==
  \E pad \in Pads, plate \in Plates :
    /\ powered_by[pad] = plate
    /\ last_plate_event[plate] = "Released"
    /\ pad \notin powered
    /\ pad_detector[pad].charged_entity # None

\* C14: when the entity a pad charges leaves the pad, or the pad loses
\* Powered, an entity that is PoweredBy this pad loses PoweredBy, and loses
\* Powered unless it is a cube; an entity that is not PoweredBy this pad is
\* left as it is.
C14_CubesRetainPower ==
  [][\A pad \in Pads :
       LET e == pad_detector[pad].charged_entity
           left == /\ step' = "update_charge_pad_overlaps"
                   /\ e \notin pad_detector'[pad].overlapping_entities
           lost == /\ step' = "update_pressure_plate_overlaps"
                   /\ pad \in powered
                   /\ pad \notin powered'
       IN (e # None /\ (left \/ lost)) =>
            IF powered_by[e] = pad
            THEN /\ powered_by'[e] = None
                 /\ e \in powered' <=> (e \in Cubes /\ e \in powered)
            ELSE /\ powered_by'[e] = powered_by[e]
                 /\ e \in powered' <=> e \in powered]_vars

\* a cube that a pad had powered has left every pad: it is still Powered
\* and carries no PoweredBy
C14_Witness ==
  \E c \in Cubes :
    /\ step = "update_charge_pad_overlaps"
    /\ c \in powered
    /\ powered_by[c] = None
    /\ \A pad \in Pads : c \notin pad_detector[pad].overlapping_entities

\* C15: once a tick of update_charge_pad_overlaps and its events are
\* processed, a pad charges no entity exactly when no entity overlaps it,
\* and the entity it charges is one of those that overlap it.
C15_ChargedEntityOverlaps ==
  \A pad \in Pads :
    LET det == pad_detector[pad]
    IN /\ det.charged_entity = None <=> det.overlapping_entities = {}
       /\ det.charged_entity # None => det.charged_entity \in det.overlapping_entities

\* a pad that powered a cube now charges the spitter that stands on it,
\* the cube having left
C15_Witness ==
  \E pad \in Pads, c \in Cubes :
    /\ step = "update_charge_pad_overlaps"
    /\ c \in powered
    /\ powered_by[c] = None
    /\ c \notin pad_detector[pad].overlapping_entities
    /\ pad_detector[pad].charged_entity \in Spitters
    /\ powered_by[pad_detector[pad].charged_entity] = pad

C17_NeverPoweredAndDischarging ==
  \A c \in Cubes : ~(c \in powered /\ cube_discharge[c] # NoTimer)

\* C18: a run of cube_discharge_detection leaves a cube that carries Held
\* with its Powered and without a new CubeDischarge, and when every Powered
\* cube is held it signals nothing: no component of the power network
\* changes.
C18_HeldCubeKeepsPower ==
  [][step' = "cube_discharge_detection" =>
       /\ \A c \in Cubes :
            held[c] # "none" =>
              /\ c \in powered => c \in powered'
              /\ cube_discharge'[c] = cube_discharge[c]
       /\ (\A c \in Cubes : c \in powered => held[c] # "none") => UNCHANGED worldVars]_vars

\* the system has just run on a held cube that is Powered and past its
\* PoweringUp, with an unpowered pole in range
C18_Witness ==
  \E c \in Cubes, p \in Poles :
    /\ step = "cube_discharge_detection"
    /\ held[c] # "none"
    /\ c \in powered
    /\ powering_up[c] = NoTimer
    /\ {c, p} \subseteq near
    /\ p \notin powered

(***************************************************************************)
(* Claims about Signals and doors.                                         *)
(***************************************************************************)
\* C19: a Signal that starts colliding with a cube is despawned if and only
\* if the cube is then neither Powered nor in CubeDischarge, in which case
\* the cube receives exactly one DirectSignal; otherwise the Signal stays
\* and the cube is unchanged; a collider that is not a Signal never causes
\* a DirectSignal.
C19_SignalConsumedIffIdle ==
  [][step' = "cube_collision_start" =>
       LET cube == ColliderOf(call'.target)
           collider == call'.collider
           idle == cube \notin powered /\ cube_discharge[cube] = NoTimer
       IN IF collider \in signal_entities
          THEN /\ collider \notin signal_entities' <=> idle
               /\ idle => call'.direct_signals = 1
               /\ ~idle => UNCHANGED worldVars
          ELSE call'.direct_signals = 0 /\ UNCHANGED worldVars]_vars

\* C20: check_door_power_requirements opens a door that is not open exactly
\* when the number of Powered door poles whose PowersDoor is this door is at
\* least ExtraDoorPowerRequired.amount + 1 (1 without the component), and
\* closes an open door exactly when it is not; the Powered poles of other
\* doors are not counted.
C20_DoorPowerRequirement ==
  [][step' = "check_door_power_requirements" =>
       \A door \in LevelDoors :
         LET own == {p \in DoorPoles : p \in powered /\ powers_door[p] = door}
             need == IF extra_door_power_required[door] = NoExtra THEN 1
                     ELSE extra_door_power_required[door] + 1
             should_be_open == Cardinality(own) >= need
             is_open == door_y[door] > 1
         IN door_tween'[door] = IF should_be_open /\ ~is_open THEN "open"
                                ELSE IF ~should_be_open /\ is_open THEN "close"
                                ELSE door_tween[door]]_vars

\* a door that asks for one extra pole is being opened by its two Powered
\* poles while the other door, whose only pole is Powered too, stays shut
\* for want of a second one
C20_Witness ==
  /\ step = "check_door_power_requirements"
  /\ \E door \in LevelDoors : \E other \in LevelDoors \ {door} :
       /\ extra_door_power_required[door] = 1
       /\ extra_door_power_required[other] = 1
       /\ Cardinality({p \in DoorPoles : p \in powered /\ powers_door[p] = door}) = 2
       /\ Cardinality({p \in DoorPoles : p \in powered /\ powers_door[p] = other}) = 1
       /\ door_tween[door] = "open"
       /\ door_tween[other] = "none"
       /\ door_y[other] = 0

\* C21: a DirectSignal on a signal spitter that is not Powered adds one
\* SignalAfterDelay of 1000 ms per collider with a material and leaves
\* Powered alone; every SignalAfterDelay it added stays until the frame in
\* which its delay has elapsed and is then turned into exactly one Signal;
\* no SignalAfterDelay of the continuous emission exists while the spitter
\* is not Powered.
C21_DirectSignalOneShot ==
  [][/\ (step' = "signal_spitter_direct_signal" /\ TheSpitter \notin powered) =>
          /\ waiting \subseteq waiting'
          /\ Cardinality(waiting' \ waiting) = material_colliders
          /\ \A w \in waiting' \ waiting : w.delay_ms = 1000 /\ w.elapsed = 0
          /\ UNCHANGED worldVars
     /\ \A w \in waiting :
          w.by = "direct_signal" =>
            \/ \E v \in waiting' : v.id = w.id /\ v.by = w.by /\ v.elapsed < v.delay_ms
            \/ /\ step' = "signal_after_delay"
               /\ w.id \in call'.spawned
               /\ Cardinality(call'.signals) = Cardinality(call'.spawned)
               /\ call'.signals \subseteq signal_entities' \ signal_entities
     /\ TheSpitter \notin powered' =>
          \A w \in waiting' : w.by = "direct_signal"]_vars

====
